---- MODULE Spec2Model ----
(***************************************************************************)
(* A model of `h`, the DOM element factory of leo-shopify/h.                *)
(*                                                                         *)
(* The repository holds several generations of the factory.  The model     *)
(* keeps them apart:                                                       *)
(*   h         src/src/h.js 263-381   (inline classifier, for-in, deepCopy) *)
(*   h_keys    src/src/h.js  76-180   (isAttributes, Object.keys)           *)
(*   h_index   src/src/index.js 102-198 (typed tag test, insertBefore)      *)
(* The environment is the test double of src/test/index.js.                *)
(*                                                                         *)
(* Specifications:                                                         *)
(*   Spec       one invocation, of any generation, on a prepared heap      *)
(*   SpecFault  one invocation on an environment that refuses an operation *)
(*   SpecSeq    invocations made one after another on the same heap        *)
(*   SpecRun    one invocation of h taken step by step, to its end         *)
(***************************************************************************)
EXTENDS Integers, Sequences, FiniteSets, TLC

(***************************************************************************)
(* JavaScript values.  Each kind is a record with its own field names.     *)
(***************************************************************************)
Undefined == [k |-> "undefined"]
Null == [k |-> "null"]
NaN == [k |-> "NaN"]
Str(s) == [k |-> "string", s |-> s]
Num(n) == [k |-> "number", n |-> n]
Bool(b) == [k |-> "boolean", b |-> b]
\* an Array: its items in index order
Arr(items) == [k |-> "array", items |-> items]
\* a plain Object: its own enumerable members, [key, val], in insertion order
Obj(fields) == [k |-> "object", fields |-> fields]
\* a Map / a WeakMap: its entries are not properties of the object
MapOf(entries) == [k |-> "Map", entries |-> entries]
WeakMapOf(entries) == [k |-> "WeakMap", entries |-> entries]
\* a callable, known by name
Fn(name) == [k |-> "function", name |-> name]
\* a reference to a NodeLike object of the heap (an element or a fragment)
Node(id) == [k |-> "node", id |-> id]

Field(key, val) == [key |-> key, val |-> val]

(***************************************************************************)
(* Members of a plain Object.                                              *)
(***************************************************************************)
Has(fields, key) == \E i \in 1..Len(fields) : fields[i].key = key

Get(fields, key) ==
  IF Has(fields, key)
  THEN fields[CHOOSE i \in 1..Len(fields) : fields[i].key = key].val
  ELSE Undefined

Put(fields, key, val) ==
  IF Has(fields, key)
  THEN [i \in 1..Len(fields) |->
          IF fields[i].key = key THEN Field(key, val) ELSE fields[i]]
  ELSE Append(fields, Field(key, val))

RECURSIVE Del(_, _)
Del(fields, key) ==
  IF fields = <<>> THEN <<>>
  ELSE IF Head(fields).key = key THEN Del(Tail(fields), key)
  ELSE <<Head(fields)>> \o Del(Tail(fields), key)

(***************************************************************************)
(* Language semantics the factory relies on.                               *)
(***************************************************************************)
\* ToBoolean, as used by `||` and `?:`
Truthy(v) ==
  CASE v.k = "undefined" -> FALSE
    [] v.k = "null" -> FALSE
    [] v.k = "NaN" -> FALSE
    [] v.k = "string" -> v.s # ""
    [] v.k = "number" -> v.n # 0
    [] v.k = "boolean" -> v.b
    [] OTHER -> TRUE

\* typeof
TypeOf(v) ==
  CASE v.k = "undefined" -> "undefined"
    [] v.k = "string" -> "string"
    [] v.k \in {"number", "NaN"} -> "number"
    [] v.k = "boolean" -> "boolean"
    [] v.k = "function" -> "function"
    [] OTHER -> "object"

Digits == <<"0", "1", "2", "3", "4", "5", "6", "7", "8", "9">>

RECURSIVE NumToStr(_)
NumToStr(n) ==
  IF n < 10 THEN Digits[n + 1]
  ELSE NumToStr(n \div 10) \o Digits[(n % 10) + 1]

\* Object.prototype.toString.call(it)
objToStr(it) ==
  CASE it.k = "undefined" -> "[object Undefined]"
    [] it.k = "null" -> "[object Null]"
    [] it.k = "string" -> "[object String]"
    [] it.k \in {"number", "NaN"} -> "[object Number]"
    [] it.k = "boolean" -> "[object Boolean]"
    [] it.k = "array" -> "[object Array]"
    [] it.k = "function" -> "[object Function]"
    [] it.k = "Map" -> "[object Map]"
    [] it.k = "WeakMap" -> "[object WeakMap]"
    [] OTHER -> "[object Object]"   \* plain objects and class instances

\* String.prototype.substr(start), start counted from 0
substr(str, start) == SubSeq(str, start + 1, Len(str))

\* value + '' : ToString of a value that reached the string coercion
RECURSIVE ToStr(_)
RECURSIVE Join(_)
Join(items) ==
  IF items = <<>> THEN ""
  ELSE LET x == Head(items)
           sx == IF x.k \in {"undefined", "null"} THEN "" ELSE ToStr(x)
       IN IF Len(items) = 1 THEN sx ELSE sx \o "," \o Join(Tail(items))

ToStr(v) ==
  CASE v.k = "undefined" -> "undefined"
    [] v.k = "null" -> "null"
    [] v.k = "NaN" -> "NaN"
    [] v.k = "string" -> v.s
    [] v.k = "number" -> NumToStr(v.n)
    [] v.k = "boolean" -> IF v.b THEN "true" ELSE "false"
    [] v.k = "array" -> Join(v.items)
    [] v.k = "function" -> "function " \o v.name \o "() { [code] }"
    [] OTHER -> objToStr(v)

LowerCase == "abcdefghijklmnopqrstuvwxyz"
UpperCase == "ABCDEFGHIJKLMNOPQRSTUVWXYZ"
CharAt(s, i) == SubSeq(s, i, i)
IsLower(c) == \E i \in 1..Len(LowerCase) : CharAt(LowerCase, i) = c
IsUpper(c) == \E i \in 1..Len(UpperCase) : CharAt(UpperCase, i) = c

\* String.prototype.toUpperCase
RECURSIVE toUpperCase(_)
toUpperCase(s) ==
  IF Len(s) = 0 THEN ""
  ELSE LET c == CharAt(s, 1)
           u == IF IsLower(c)
                THEN CharAt(UpperCase, CHOOSE i \in 1..Len(LowerCase) : CharAt(LowerCase, i) = c)
                ELSE c
       IN u \o toUpperCase(SubSeq(s, 2, Len(s)))

(***************************************************************************)
(* The environment: the doubles of src/test/index.js.                      *)
(*                                                                         *)
(* The heap is the sequence of NodeLike objects built so far; Node(i) is a *)
(* reference to heap[i].  `props` holds the properties written on a node   *)
(* besides the four its constructor sets.                                  *)
(***************************************************************************)
ELEMENT_NODE == 1
DOCUMENT_FRAGMENT_NODE == 11

\* /^(:|_|[A-Z]|[a-z])+(:|_|[A-Z]|[a-z]|-|.|[0-9])*$/ : one name-start character,
\* then any characters but line terminators
RECURSIVE NoLineBreak(_)
NoLineBreak(s) ==
  Len(s) = 0 \/ (CharAt(s, 1) # "\n" /\ NoLineBreak(SubSeq(s, 2, Len(s))))

VALID_TAG_NAME(tag) ==
  /\ Len(tag) >= 1
  /\ LET c == CharAt(tag, 1) IN c = ":" \/ c = "_" \/ IsUpper(c) \/ IsLower(c)
  /\ NoLineBreak(tag)

\* new HTMLElementLike(tag), for a tag the constructor accepts
HTMLElementLike(tag) ==
  [nodeType |-> ELEMENT_NODE, tagName |-> toUpperCase(tag),
   attributes |-> <<>>, props |-> <<>>, children |-> <<>>]

\* new DocumentFragmentLike(): no tagName, no attributes
DocumentFragmentLike ==
  [nodeType |-> DOCUMENT_FRAGMENT_NODE, tagName |-> "",
   attributes |-> <<>>, props |-> <<>>, children |-> <<>>]

(***************************************************************************)
(* One invocation threads a record through its steps:                      *)
(*   heap  the NodeLike objects                                            *)
(*   log   the calls made on the environment, and the classifier's         *)
(*         decisions, in order; depth 0 is the outer call, depth n a call  *)
(*         reached through n delegations                                   *)
(*   err   "none", or the error thrown (every later step is then skipped)  *)
(*   ret   the value of the last expression evaluated                      *)
(*   calls how many operations were asked of the environment so far        *)
(*   fault which of them the environment refuses (a DOM operation may      *)
(*         throw); 0 when it refuses none, as the double never does        *)
(*   given the caller's argument list, as the outer call leaves it         *)
(*   args  the array the outer call made of it (toArray), as it leaves it  *)
(***************************************************************************)
Event(op, depth, target, key, arg) ==
  [op |-> op, depth |-> depth, target |-> target, key |-> key, arg |-> arg]

Start(heap) ==
  [heap |-> heap, log |-> <<>>, err |-> "none", ret |-> Undefined,
   calls |-> 0, fault |-> 0, given |-> <<>>, args |-> <<>>]

\* the same, on an environment that refuses its n-th operation
StartFailing(heap, n) == [Start(heap) EXCEPT !.fault = n]

Throw(st, e) == [st EXCEPT !.err = e]

\* the operation now asked is the one the environment refuses
Refused(st) == st.fault # 0 /\ st.calls + 1 = st.fault

\* one more operation asked of the environment
Asked(st) == [st EXCEPT !.calls = @ + 1]

IsElement(heap, v) ==
  v.k = "node" /\ v.id \in 1..Len(heap) /\ heap[v.id].nodeType = ELEMENT_NODE

IsNodeLike(heap, v) == v.k = "node" /\ v.id \in 1..Len(heap)

\* DocumentLike.createElement(tag)
createElement(st, d, tag) ==
  LET logged == [Asked(st) EXCEPT !.log = Append(@, Event("createElement", d, 0, "", Str(tag)))]
  IN IF Refused(st) THEN Throw(Asked(st), "EnvironmentError")
     ELSE IF ~VALID_TAG_NAME(tag) THEN Throw(logged, "InvalidCharacterError")
     ELSE [logged EXCEPT !.heap = Append(@, HTMLElementLike(tag)),
                         !.ret = Node(Len(st.heap) + 1)]

\* DocumentLike.createTextNode(str): the double hands the value back
createTextNode(st, d, str) ==
  IF Refused(st) THEN Throw(Asked(st), "EnvironmentError") ELSE
  [Asked(st) EXCEPT !.log = Append(@, Event("createTextNode", d, 0, "", str)),
             !.ret = str]

\* NodeLike.appendChild(child)
appendChild(st, d, element, child) ==
  IF ~IsNodeLike(st.heap, element) THEN Throw(st, "TypeError")
  ELSE IF Refused(st) THEN Throw(Asked(st), "EnvironmentError")
  ELSE [Asked(st) EXCEPT !.log = Append(@, Event("appendChild", d, element.id, "", child)),
                  !.heap[element.id].children = Append(@, child),
                  !.ret = child]

\* HTMLElementLike.setAttribute(key, val)
setAttribute(st, d, element, key, val) ==
  IF ~IsElement(st.heap, element) THEN Throw(st, "TypeError")
  ELSE IF Refused(st) THEN Throw(Asked(st), "EnvironmentError")
  ELSE [Asked(st) EXCEPT !.log = Append(@, Event("setAttribute", d, element.id, key, val)),
                  !.heap[element.id].attributes = Put(@, key, val),
                  !.ret = Undefined]

\* HTMLElementLike.removeAttribute(key)
removeAttribute(st, d, element, key) ==
  IF ~IsElement(st.heap, element) THEN Throw(st, "TypeError")
  ELSE IF Refused(st) THEN Throw(Asked(st), "EnvironmentError")
  ELSE [Asked(st) EXCEPT !.log = Append(@, Event("removeAttribute", d, element.id, key, Undefined)),
                  !.heap[element.id].attributes = Del(@, key),
                  !.ret = Undefined]

(***************************************************************************)
(* Property reads.                                                         *)
(***************************************************************************)
\* it.nodeType
nodeTypeOf(heap, it) ==
  CASE it.k = "node" -> Num(heap[it.id].nodeType)
    [] it.k = "object" -> Get(it.fields, "nodeType")
    [] OTHER -> Undefined

\* 'nodeType' in it, for an object
hasNodeType(it) ==
  CASE it.k = "node" -> TRUE
    [] it.k = "object" -> Has(it.fields, "nodeType")
    [] OTHER -> FALSE

\* the keys a for-in loop visits
ForInKeys(v) ==
  CASE v.k = "object" -> [i \in 1..Len(v.fields) |-> v.fields[i].key]
    [] v.k = "array" -> [i \in 1..Len(v.items) |-> NumToStr(i - 1)]
    [] v.k = "string" -> [i \in 1..Len(v.s) |-> NumToStr(i - 1)]
    [] OTHER -> <<>>

\* from[prop]
Member(v, prop) ==
  CASE v.k = "object" -> Get(v.fields, prop)
    [] v.k = "array" ->
         IF \E i \in 1..Len(v.items) : NumToStr(i - 1) = prop
         THEN v.items[CHOOSE i \in 1..Len(v.items) : NumToStr(i - 1) = prop]
         ELSE Undefined
    [] v.k = "string" ->
         IF \E i \in 1..Len(v.s) : NumToStr(i - 1) = prop
         THEN Str(CharAt(v.s, CHOOSE i \in 1..Len(v.s) : NumToStr(i - 1) = prop))
         ELSE Undefined
    [] OTHER -> Undefined

\* arguments[i], i counted from 0
Arg(arguments, i) == IF i + 1 <= Len(arguments) THEN arguments[i + 1] ELSE Undefined

\* Array.prototype.slice.call(arguments, start)
toArray(arguments, start) == SubSeq(arguments, start + 1, Len(arguments))

\* const args = toArray.call(arguments, 1): the caller's list, given, and
\* the array h makes of it, args; kept for the call the caller made (depth 0)
Entered(st, d, arguments) ==
  IF d = 0 THEN [st EXCEPT !.given = arguments, !.args = toArray(arguments, 1)]
  ELSE st

\* Placed, had args been the caller's list itself, the write going through
Placed_shared(st, d, rest) ==
  IF d = 0
  THEN [st EXCEPT !.args = rest,
                  !.given = IF @ = <<>> THEN @ ELSE <<Head(@)>> \o rest]
  ELSE st

\* args[0] = null: the write is on the array h made
Placed(st, d, rest) ==
  IF d = 0 THEN [st EXCEPT !.args = rest] ELSE st

(***************************************************************************)
(* src/src/h.js, second generation (lines 182-381).                        *)
(***************************************************************************)
DEFAULT_TAG == "div"

\* to[prop] = val on the value `to`; module code is strict, so a write on a
\* primitive throws.  acc is [val, err].
Assign(acc, prop, val) ==
  CASE acc.val.k = "object" -> [acc EXCEPT !.val = Obj(Put(acc.val.fields, prop, val))]
    [] acc.val.k \in {"string", "number", "boolean", "NaN"} -> [acc EXCEPT !.err = "TypeError"]
    [] OTHER -> acc

RECURSIVE deepCopy(_, _)
RECURSIVE deepCopyProps(_, _, _)
\* deepCopyProps, had it assigned every value as it is (`to[prop] = from[prop]`)
deepCopyProps_shallow(acc, from, keys) ==
  IF keys = <<>> \/ acc.err # "none" THEN acc
  ELSE deepCopyProps(Assign(acc, Head(keys), Member(from, Head(keys))), from, Tail(keys))

\* the body of deepCopy's for-in loop, over the keys still to visit
deepCopyProps(acc, from, keys) ==
  IF keys = <<>> \/ acc.err # "none" THEN acc
  ELSE LET prop == Head(keys)
           fv == Member(from, prop)
           step ==
             IF TypeOf(fv) = "object" /\ fv # Null
             THEN LET cur == Member(acc.val, prop)
                      dest == IF Truthy(cur) THEN cur ELSE Obj(<<>>)
                      a1 == Assign(acc, prop, dest)
                  IN IF a1.err # "none" THEN a1
                     ELSE LET r == deepCopy(dest, fv)
                          IN [val |-> Assign(a1, prop, r.val).val, err |-> r.err]
             ELSE Assign(acc, prop, fv)
       IN deepCopyProps(step, from, Tail(keys))

\* deepCopy(to, from): the value of `to` afterwards, and the error thrown if any
deepCopy(to, from) ==
  deepCopyProps([val |-> to, err |-> "none"], from, ForInKeys(from))

\* copyProperties, had "$" been handled as any other key
copyProperties_attr(st, d, element, attrVal) ==
  setAttribute(st, d, element, "$", attrVal)

\* deepCopy(element, attrVal), the element's property bag being the destination
copyProperties(st, d, element, attrVal) ==
  IF ~IsNodeLike(st.heap, element) THEN Throw(st, "TypeError")
  ELSE LET r == deepCopy(Obj(st.heap[element.id].props), attrVal)
       IN [st EXCEPT !.log = Append(@, Event("deepCopy", d, element.id, "$", attrVal)),
                     !.heap[element.id].props = r.val.fields,
                     !.err = r.err]

\* addChildren, had it placed each child before the children already there
\* (as the insertBefore of src/src/index.js does) instead of after them
addChildren_first(st, d, element, item) ==
  IF item = Null \/ item = Undefined THEN st
  ELSE IF ~IsNodeLike(st.heap, element) THEN Throw(st, "TypeError")
  ELSE [st EXCEPT !.log = Append(@, Event("appendChild", d, element.id, "", item)),
                  !.heap[element.id].children = <<item>> \o @,
                  !.ret = item]

RECURSIVE addChildren(_, _, _, _)
RECURSIVE reduce(_, _, _, _)
\* reduce, had it folded from the right (reduceRight)
reduce_right(st, d, element, items) ==
  IF items = <<>> \/ st.err # "none" THEN st
  ELSE reduce(addChildren(st, d, element, items[Len(items)]),
              d, element, SubSeq(items, 1, Len(items) - 1))

\* items.reduce(addChildren, element)
reduce(st, d, element, items) ==
  IF items = <<>> \/ st.err # "none" THEN st
  ELSE reduce(addChildren(st, d, element, Head(items)), d, element, Tail(items))

\* addChildren, had it appended every item that is not an array as it is
addChildren_raw(st, d, element, item) ==
  IF item = Null \/ item = Undefined THEN st
  ELSE IF item.k = "array" THEN reduce(st, d, element, item.items)
  ELSE appendChild(st, d, element, item)

\* addChildren, had it skipped every falsy item (`!item`)
addChildren_falsy(st, d, element, item) ==
  IF ~Truthy(item) THEN st
  ELSE IF item.k = "array" THEN reduce(st, d, element, item.items)
  ELSE IF Truthy(nodeTypeOf(st.heap, item))
       THEN appendChild(st, d, element, item)
       ELSE LET text == createTextNode(st, d, item)
            IN IF text.err # "none" THEN text
               ELSE appendChild(text, d, element, text.ret)

\* addChildren, had it skipped null alone (`item === null`)
addChildren_strictNull(st, d, element, item) ==
  IF item = Null THEN st
  ELSE IF item.k = "array" THEN reduce(st, d, element, item.items)
  ELSE IF Truthy(nodeTypeOf(st.heap, item))
       THEN appendChild(st, d, element, item)
       ELSE LET text == createTextNode(st, d, item)
            IN IF text.err # "none" THEN text
               ELSE appendChild(text, d, element, text.ret)

addChildren(st, d, element, item) ==
  IF item = Null \/ item = Undefined THEN st
  ELSE IF item.k = "array" THEN reduce(st, d, element, item.items)
  ELSE IF Truthy(nodeTypeOf(st.heap, item))
       THEN appendChild(st, d, element, item)
       ELSE LET text == createTextNode(st, d, item)
            IN IF text.err # "none" THEN text
               ELSE appendChild(text, d, element, text.ret)

\* const tag = arguments[0] || DEFAULT_TAG
tagOrDefault(arguments) ==
  IF Truthy(Arg(arguments, 0)) THEN Arg(arguments, 0) ELSE Str(DEFAULT_TAG)

\* elementFor, had the coerced tag no fallback to the default
elementFor_noFallback(st, d, tag) ==
  IF Truthy(nodeTypeOf(st.heap, tag)) /\ nodeTypeOf(st.heap, tag) = Num(ELEMENT_NODE)
  THEN [st EXCEPT !.ret = tag]
  ELSE createElement(st, d, ToStr(tag))

\* elementFor, had it made a new element of the existing one's tag name
elementFor_copy(st, d, tag) ==
  IF tag.k = "node"
  THEN createElement(st, d, st.heap[tag.id].tagName)
  ELSE createElement(st, d, IF ToStr(tag) # "" THEN ToStr(tag) ELSE DEFAULT_TAG)

\* elementFor, had it made the default element when the tag name is refused
elementFor_catch(st, d, tag) ==
  IF Truthy(nodeTypeOf(st.heap, tag)) /\ nodeTypeOf(st.heap, tag) = Num(ELEMENT_NODE)
  THEN [st EXCEPT !.ret = tag]
  ELSE LET name == IF ToStr(tag) # "" THEN ToStr(tag) ELSE DEFAULT_TAG
       IN createElement(st, d, IF VALID_TAG_NAME(name) THEN name ELSE DEFAULT_TAG)

\* elementFor, had it made the default element whatever the tag
elementFor_default(st, d, tag) ==
  IF Truthy(nodeTypeOf(st.heap, tag)) /\ nodeTypeOf(st.heap, tag) = Num(ELEMENT_NODE)
  THEN [st EXCEPT !.ret = tag]
  ELSE createElement(st, d, DEFAULT_TAG)

\* elementFor, had it taken any tag with a nodeType as the element
elementFor_anyNode(st, d, tag) ==
  IF Truthy(nodeTypeOf(st.heap, tag))
  THEN [st EXCEPT !.ret = tag]
  ELSE createElement(st, d, IF ToStr(tag) # "" THEN ToStr(tag) ELSE DEFAULT_TAG)

\* let element: the existing element, or a new one for the coerced tag
elementFor(st, d, tag) ==
  IF Truthy(nodeTypeOf(st.heap, tag)) /\ nodeTypeOf(st.heap, tag) = Num(ELEMENT_NODE)
  THEN [st EXCEPT !.ret = tag]
  ELSE createElement(st, d, IF ToStr(tag) # "" THEN ToStr(tag) ELSE DEFAULT_TAG)

\* the inline test, had it been `typeof first === 'object'`
firstIsAttributes_typeof(first) == TypeOf(first) = "object"

\* the inline test on args[0]
firstIsAttributes(first) ==
  LET asStr == substr(objToStr(first), 8)
  IN \/ first = Null
     \/ (asStr = "Object]" /\ ~hasNodeType(first))
     \/ asStr = "Map]"
     \/ asStr = "WeakMap]"

\* applyAttribute, had it removed on every falsy value (`!attrVal`)
applyAttribute_falsy(st, d, element, attrKey, attrVal) ==
  IF attrKey = "$" THEN copyProperties(st, d, element, attrVal)
  ELSE IF ~Truthy(attrVal) THEN removeAttribute(st, d, element, attrKey)
  ELSE setAttribute(st, d, element, attrKey, attrVal)

\* applyAttribute, had it removed on null alone (`attrVal === null`)
applyAttribute_strict(st, d, element, attrKey, attrVal) ==
  IF attrKey = "$" THEN copyProperties(st, d, element, attrVal)
  ELSE IF attrVal = Null THEN removeAttribute(st, d, element, attrKey)
  ELSE setAttribute(st, d, element, attrKey, attrVal)

\* the body of the attributes loop, for one key
applyAttribute(st, d, element, attrKey, attrVal) ==
  IF attrKey = "$" THEN copyProperties(st, d, element, attrVal)
  ELSE IF attrVal = Null \/ attrVal = Undefined THEN removeAttribute(st, d, element, attrKey)
  ELSE setAttribute(st, d, element, attrKey, attrVal)

RECURSIVE forIn(_, _, _, _, _)
\* for (const attrKey in attributes) { ... }, over the keys still to visit
forIn(st, d, element, attributes, keys) ==
  IF keys = <<>> \/ st.err # "none" THEN st
  ELSE forIn(applyAttribute(st, d, element, Head(keys), Member(attributes, Head(keys))),
             d, element, attributes, Tail(keys))

\* the classifier's decision on args[0], kept in the log
Classified(st, d, first, yes) ==
  [st EXCEPT !.log = Append(@, Event("classify", d, 0,
                                     IF yes THEN "attributes" ELSE "child", first))]

RECURSIVE h(_, _, _)
\* apply, had it been the plain call tag(args): one argument, the array
apply_call(st, d, tag, args) ==
  IF tag.name = "h" THEN h(st, d + 1, <<Arr(args)>>)
  ELSE [st EXCEPT !.ret = Arr(<<Arr(args)>>)]

\* tag.apply(null, args): h itself, or a component that hands back the
\* arguments it received
apply(st, d, tag, args) ==
  IF tag.name = "h" THEN h(st, d + 1, args)
  ELSE [st EXCEPT !.ret = Arr(args)]

\* populate, had it attached the children before applying the attributes
populate_childrenFirst(st, d, element, args) ==
  LET first == Arg(args, 0)
      yes == firstIsAttributes(first)
      rest == IF yes THEN [args EXCEPT ![1] = Null] ELSE args
      s1 == Classified(st, d, first, yes)
      s2 == reduce(s1, d, element, rest)
      s3 == IF yes /\ s2.err = "none"
            THEN forIn(s2, d, element, first, ForInKeys(first)) ELSE s2
  IN IF s3.err = "none" THEN [s3 EXCEPT !.ret = element] ELSE s3

\* populate, had it put the element back as it was when a step fails
populate_rollback(st, d, element, args) ==
  LET first == Arg(args, 0)
      yes == firstIsAttributes(first)
      rest == IF yes THEN [args EXCEPT ![1] = Null] ELSE args
      s1 == Classified(st, d, first, yes)
      s2 == IF yes THEN forIn(s1, d, element, first, ForInKeys(first)) ELSE s1
      s3 == reduce(s2, d, element, rest)
  IN IF s3.err = "none" THEN [s3 EXCEPT !.ret = element]
     ELSE [s3 EXCEPT !.heap = st.heap]

\* populate, had it left the attributes value in the argument list
populate_keep(st, d, element, args) ==
  LET first == Arg(args, 0)
      yes == firstIsAttributes(first)
      s1 == Classified(st, d, first, yes)
      s2 == IF yes THEN forIn(s1, d, element, first, ForInKeys(first)) ELSE s1
      s3 == reduce(s2, d, element, args)
  IN IF s3.err = "none" THEN [s3 EXCEPT !.ret = element] ELSE s3

\* everything after the element is known: attributes, then children
populate(st, d, element, args) ==
  LET first == Arg(args, 0)
      yes == firstIsAttributes(first)
      rest == IF yes THEN [args EXCEPT ![1] = Null] ELSE args
      s1 == Classified(Placed(st, d, rest), d, first, yes)
      s2 == IF yes THEN forIn(s1, d, element, first, ForInKeys(first)) ELSE s1
      s3 == reduce(s2, d, element, rest)
  IN IF s3.err = "none" THEN [s3 EXCEPT !.ret = element] ELSE s3

h(st, d, arguments) ==
  LET args == toArray(arguments, 1)
      tag == tagOrDefault(arguments)
      s0 == Entered(st, d, arguments)
  IN IF TypeOf(tag) = "function" THEN apply(s0, d, tag, args)
     ELSE LET s1 == elementFor(s0, d, tag)
          IN IF s1.err # "none" THEN s1 ELSE populate(s1, d, s1.ret, args)

(***************************************************************************)
(* src/src/h.js, first generation (lines 1-180).  addChildren, the tag     *)
(* default and the element step (lines 86-91, 116, 131-138) read as in the *)
(* second generation and are modelled by the same definitions.             *)
(***************************************************************************)
\* isAttributes(it)
isAttributes(it) ==
  LET str == substr(objToStr(it), 8)
  IN \/ it = Null
     \/ (str = "Object]" /\ ~hasNodeType(it))
     \/ str = "Map]"
     \/ str = "WeakMap]"

\* Object.keys(v): [keys, err]; null and undefined cannot be converted to an
\* object
ObjectKeys(v) ==
  IF v = Null \/ v = Undefined THEN [keys |-> <<>>, err |-> "TypeError"]
  ELSE [keys |-> IF v.k \in {"object", "string", "array"} THEN ForInKeys(v) ELSE <<>>,
        err |-> "none"]

RECURSIVE assignEach(_, _, _)
\* Object.keys(attrVal).forEach((propKey) => { element[propKey] = attrVal[propKey]; })
assignEach(props, attrVal, keys) ==
  IF keys = <<>> THEN props
  ELSE assignEach(Put(props, Head(keys), Member(attrVal, Head(keys))), attrVal, Tail(keys))

\* the `$` branch: the members of attrVal become properties of the element
assignProperties(st, d, element, attrVal) ==
  IF ObjectKeys(attrVal).err # "none" THEN Throw(st, ObjectKeys(attrVal).err)
  ELSE IF ~IsNodeLike(st.heap, element) THEN Throw(st, "TypeError")
  ELSE [st EXCEPT !.log = Append(@, Event("assign", d, element.id, "$", attrVal)),
                  !.heap[element.id].props =
                     assignEach(@, attrVal, ObjectKeys(attrVal).keys)]

\* the body of the forEach callback, for one key
applyAttribute_keys(st, d, element, attrKey, attrVal) ==
  IF attrKey = "$" THEN assignProperties(st, d, element, attrVal)
  ELSE IF attrVal = Null \/ attrVal = Undefined THEN removeAttribute(st, d, element, attrKey)
  ELSE setAttribute(st, d, element, attrKey, attrVal)

RECURSIVE forEach(_, _, _, _, _)
\* keys.forEach(callback), over the keys still to visit
forEach(st, d, element, attributes, keys) ==
  IF keys = <<>> \/ st.err # "none" THEN st
  ELSE forEach(applyAttribute_keys(st, d, element, Head(keys), Member(attributes, Head(keys))),
               d, element, attributes, Tail(keys))

RECURSIVE h_keys(_, _, _)
\* tag.apply(null, args)
apply_keys(st, d, tag, args) ==
  IF tag.name = "h" THEN h_keys(st, d + 1, args)
  ELSE [st EXCEPT !.ret = Arr(args)]

\* attributes, then children
populate_keys(st, d, element, args) ==
  LET first == Arg(args, 0)
      yes == isAttributes(first)
      rest == IF yes THEN [args EXCEPT ![1] = Null] ELSE args
      s1 == Classified(Placed(st, d, rest), d, first, yes)
      s2 == IF ~yes THEN s1
            ELSE IF ObjectKeys(first).err # "none" THEN Throw(s1, ObjectKeys(first).err)
            ELSE forEach(s1, d, element, first, ObjectKeys(first).keys)
      s3 == reduce(s2, d, element, rest)
  IN IF s3.err = "none" THEN [s3 EXCEPT !.ret = element] ELSE s3

h_keys(st, d, arguments) ==
  LET args == toArray(arguments, 1)
      tag == tagOrDefault(arguments)
      s0 == Entered(st, d, arguments)
  IN IF TypeOf(tag) = "function" THEN apply_keys(s0, d, tag, args)
     ELSE LET s1 == elementFor(s0, d, tag)
          IN IF s1.err # "none" THEN s1 ELSE populate_keys(s1, d, s1.ret, args)

(***************************************************************************)
(* src/src/index.js (lines 1-202).  This generation runs on a document     *)
(* whose nodes have firstChild and insertBefore; the heap's nodes stand    *)
(* for them, a child being known by its place in `children`.               *)
(***************************************************************************)
\* isAttributes(it); the heap is where a node's nodeType is read
isAttributes_index(heap, it) ==
  IF it = Null THEN TRUE
  ELSE IF ~Truthy(it) THEN FALSE
  ELSE LET str == substr(objToStr(it), 8)
           val == nodeTypeOf(heap, it)
       IN IF str = "Object]"
          THEN IF TypeOf(val) = "number"
               THEN val.k = "number" /\ val.n > DOCUMENT_FRAGMENT_NODE
               ELSE TRUE
          ELSE str = "Map]" \/ str = "WeakMap]"

\* element.firstChild, as a place in element.children; 0 is null
firstChild(st, element) ==
  IF st.heap[element.id].children = <<>> THEN 0 ELSE 1

\* element.insertBefore(node, child1): before the child at place child1, or
\* at the end when child1 is null
insertBefore(st, d, element, node, child1) ==
  IF ~IsNodeLike(st.heap, element) THEN Throw(st, "TypeError")
  ELSE IF Refused(st) THEN Throw(Asked(st), "EnvironmentError")
  ELSE [Asked(st) EXCEPT !.log = Append(@, Event("insertBefore", d, element.id, "", node)),
                  !.heap[element.id].children =
                     IF child1 = 0 THEN Append(@, node)
                     ELSE SubSeq(@, 1, child1 - 1) \o <<node>> \o SubSeq(@, child1, Len(@)),
                  !.ret = node]

RECURSIVE addChildren_index(_, _, _, _)
RECURSIVE addChildrenLoop(_, _, _, _, _, _)
\* the for loop of addChildren, i counting down; child1 is where the child
\* read before the loop now stands
addChildrenLoop(st, d, element, children, i, child1) ==
  IF i = 0 \/ st.err # "none" THEN st
  ELSE LET item == children[i]
       IN IF item = Null \/ item = Undefined
          THEN addChildrenLoop(st, d, element, children, i - 1, child1)
          ELSE LET s1 == IF item.k = "array"
                         THEN addChildren_index(st, d, element, item.items)
                         ELSE st
                   grown == Len(s1.heap[element.id].children)
                              - Len(st.heap[element.id].children)
                   at == IF child1 = 0 THEN 0 ELSE child1 + grown
                   s2 == IF Truthy(nodeTypeOf(s1.heap, item)) THEN [s1 EXCEPT !.ret = item]
                         ELSE createTextNode(s1, d, item)
                   s3 == IF s1.err # "none" THEN s1
                         ELSE IF s2.err # "none" THEN s2
                         ELSE insertBefore(s2, d, element, s2.ret, at)
               IN addChildrenLoop(s3, d, element, children, i - 1,
                                  IF at = 0 THEN 0 ELSE at + 1)

addChildren_index(st, d, element, children) ==
  IF ~IsNodeLike(st.heap, element) THEN Throw(st, "TypeError")
  ELSE addChildrenLoop(st, d, element, children, Len(children), firstChild(st, element))

\* the element for the tag: a string makes one, an element is taken, anything
\* else is refused
elementFor_index(st, d, tag) ==
  IF TypeOf(tag) = "string" THEN createElement(st, d, tag.s)
  ELSE IF Truthy(nodeTypeOf(st.heap, tag)) /\ nodeTypeOf(st.heap, tag) = Num(ELEMENT_NODE)
  THEN [st EXCEPT !.ret = tag]
  ELSE Throw(st, "TypeError")

RECURSIVE assignEachDown(_, _, _, _)
\* for (let j = propKeys.length, propKey; j--;) element[propKey] = attrVal[propKey]
assignEachDown(props, attrVal, propKeys, j) ==
  IF j = 0 THEN props
  ELSE assignEachDown(Put(props, propKeys[j], Member(attrVal, propKeys[j])),
                      attrVal, propKeys, j - 1)

\* the body of the attributes loop, for one key
applyAttribute_index(st, d, element, attrKey, attrVal) ==
  IF attrKey = "$"
  THEN IF ObjectKeys(attrVal).err # "none" THEN Throw(st, ObjectKeys(attrVal).err)
       ELSE IF ~IsNodeLike(st.heap, element) THEN Throw(st, "TypeError")
       ELSE [st EXCEPT !.log = Append(@, Event("assign", d, element.id, "$", attrVal)),
                       !.heap[element.id].props =
                          assignEachDown(@, attrVal, ObjectKeys(attrVal).keys,
                                         Len(ObjectKeys(attrVal).keys))]
  ELSE IF attrVal = Null \/ attrVal = Undefined THEN removeAttribute(st, d, element, attrKey)
  ELSE setAttribute(st, d, element, attrKey, attrVal)

RECURSIVE attributesLoop(_, _, _, _, _, _)
\* for (let i = attrKeys.length, attrKey, attrVal; i--;) { ... }
attributesLoop(st, d, element, attributes, attrKeys, i) ==
  IF i = 0 \/ st.err # "none" THEN st
  ELSE attributesLoop(applyAttribute_index(st, d, element, attrKeys[i],
                                           Member(attributes, attrKeys[i])),
                      d, element, attributes, attrKeys, i - 1)

RECURSIVE h_index(_, _, _)
\* tag.apply(null, rest)
apply_index(st, d, tag, args) ==
  IF tag.name = "h" THEN h_index(st, d + 1, args)
  ELSE [st EXCEPT !.ret = Arr(args)]

\* attributes, then children
populate_index(st, d, element, args) ==
  LET first == Arg(args, 0)
      yes == isAttributes_index(st.heap, first)
      remaining == IF yes THEN [args EXCEPT ![1] = Null] ELSE args
      s1 == Classified(Placed(st, d, remaining), d, first, yes)
      s2 == IF ~yes THEN s1
            ELSE IF ObjectKeys(first).err # "none" THEN Throw(s1, ObjectKeys(first).err)
            ELSE attributesLoop(s1, d, element, first, ObjectKeys(first).keys,
                                Len(ObjectKeys(first).keys))
      s3 == IF s2.err # "none" THEN s2 ELSE addChildren_index(s2, d, element, remaining)
  IN IF s3.err = "none" THEN [s3 EXCEPT !.ret = element] ELSE s3

h_index(st, d, arguments) ==
  LET args == toArray(arguments, 1)
      given == Arg(arguments, 0)
      s0 == Entered(st, d, arguments)
  IN IF TypeOf(given) = "function" THEN apply_index(s0, d, given, args)
     ELSE LET tag == IF Truthy(given) THEN given ELSE Str("div")
              s1 == elementFor_index(s0, d, tag)
          IN IF s1.err # "none" THEN s1 ELSE populate_index(s1, d, s1.ret, args)

(***************************************************************************)
(* The inputs.                                                             *)
(***************************************************************************)
\* how many children follow the first entry of rest
MaxChildren == 2

TagArgs ==
  {Undefined, Str(""), Null, NaN, Bool(FALSE), Num(0), Arr(<<>>),
   Str("a"), Str("made-up"), Bool(TRUE), Num(123), Obj(<<>>),
   Fn("h"), Fn("component"), Node(1), Node(2),
   Obj(<<Field("nodeType", Num(3))>>)}

FirstArgs ==
  {Undefined, Null,
   Obj(<<>>),
   Obj(<<Field("class", Str("w"))>>),
   Obj(<<Field("href", Null), Field("class", Str("w"))>>),
   Obj(<<Field("href", Undefined), Field("id", Num(0))>>),
   Obj(<<Field("$", Obj(<<Field("style", Obj(<<Field("color", Str("grey"))>>))>>)),
         Field("id", Str("x"))>>),
   Obj(<<Field("$", Obj(<<Field("title", Obj(<<Field("lang", Str("en"))>>))>>))>>),
   Obj(<<Field("$", Obj(<<Field("style", Str("bold")),
                          Field("hidden", Obj(<<Field("on", Num(1))>>)),
                          Field("data", Obj(<<>>))>>))>>),
   Obj(<<Field("nodeType", Num(0))>>),
   Obj(<<Field("nodeType", Num(12))>>),
   Obj(<<Field("nodeType", Str("x"))>>),
   MapOf(<<Field("href", Str("y"))>>),
   WeakMapOf(<<>>),
   Str("a"), Str(""), Num(0), Bool(FALSE), Bool(TRUE),
   Arr(<<Str("u"), Arr(<<Null, Node(2)>>)>>),
   Node(1), Node(2), Fn("h")}

ChildArgs ==
  {Null, Str("hello"), Num(0), Node(2),
   Arr(<<Str("u"), Arr(<<Undefined, Arr(<<Str("v"), Node(2)>>)>>)>>),
   Obj(<<Field("id", Str("x"))>>)}

RECURSIVE Lists(_, _)
\* the sequences over S of length at most n
Lists(S, n) ==
  IF n = 0 THEN {<<>>}
  ELSE LET shorter == Lists(S, n - 1)
       IN shorter \cup {Append(l, x) : l \in shorter, x \in S}

\* the tags given together with rest: of the falsy ones, which all become
\* the default before rest is looked at, three are kept; the tag that looks
\* like a text node is refused as the document fragment is, and is given alone
RestTags ==
  TagArgs \ {Str(""), NaN, Bool(FALSE), Num(0), Obj(<<Field("nodeType", Num(3))>>)}

\* the argument lists of a call: none, a tag, a tag and rest
ArgLists ==
  {<<>>} \cup {<<t>> : t \in TagArgs}
         \cup {<<t, f>> \o c : t \in RestTags, f \in FirstArgs, c \in Lists(ChildArgs, MaxChildren)}

\* an element the caller already holds: fresh, or with an attribute, some
\* properties and a child
Existing ==
  {HTMLElementLike("section"),
   [HTMLElementLike("a") EXCEPT !.attributes = <<Field("href", Str("x"))>>,
                                !.props = <<Field("style", Obj(<<Field("display", Str("none"))>>)),
                                            Field("title", Str("t")),
                                            Field("hidden", Bool(FALSE))>>,
                                !.children = <<Str("t")>>]}

InitHeaps == {<<e, DocumentFragmentLike>> : e \in Existing}

\* the latest operation of a call that the environment may refuse
MaxFault == 6

\* the calls taken step by step
RunArgLists ==
  {<<t, f>> \o c :
     t \in {Str("a"), Node(1), Num(123)},
     f \in {Null, Str("hello"),
            Obj(<<Field("href", Null), Field("class", Str("w"))>>),
            Obj(<<Field("$", Obj(<<Field("style", Obj(<<Field("color", Str("grey"))>>))>>)),
                  Field("id", Str("x"))>>),
            Obj(<<Field("$", Obj(<<Field("title", Obj(<<Field("lang", Str("en"))>>))>>))>>),
            Obj(<<Field("$", Obj(<<Field("style", Str("bold")),
                                   Field("hidden", Obj(<<Field("on", Num(1))>>)),
                                   Field("data", Obj(<<>>))>>))>>)},
     c \in Lists({Null, Str("hello"), Node(2),
                  Arr(<<Str("u"), Arr(<<Undefined, Arr(<<Str("v"), Node(2)>>)>>)>>)},
                 MaxChildren)}

\* the calls made on an environment that refuses an operation
FaultArgLists ==
  {<<t, f>> \o c :
     t \in {Str("a"), Node(1)},
     f \in {Null, Str("hello"),
            Obj(<<Field("href", Null), Field("class", Str("w"))>>),
            Obj(<<Field("$", Obj(<<Field("style", Obj(<<Field("color", Str("grey"))>>))>>)),
                  Field("id", Str("x"))>>)},
     c \in Lists(ChildArgs, MaxChildren)}

\* the invocations a caller makes one after another on one environment
MaxCalls == 3

\* the calls made one after another
SeqArgLists ==
  {<<>>,
   <<Node(1)>>,
   <<Num(123)>>,
   <<Node(1), Obj(<<Field("class", Str("w"))>>), Str("hello")>>,
   <<Str("a"), Null, Node(1)>>}

(***************************************************************************)
(* The state: the environment's heap, and the last invocation made on it;  *)
(* locals holds the caller's argument list and h's own array as the        *)
(* invocation left them; history is the record of the invocations made one *)
(* after another; frames is what an invocation taken step by step has     *)
(* still to do.                                                            *)
(***************************************************************************)
VARIABLES heap, pre, callee, arguments, ret, err, log, fault, locals, history,
          frames

vars == <<heap, pre, callee, arguments, ret, err, log, fault, locals, history, frames>>

Init ==
  /\ heap \in InitHeaps
  /\ pre = heap
  /\ callee = "none"
  /\ arguments = <<>>
  /\ ret = Undefined
  /\ err = "none"
  /\ log = <<>>
  /\ fault = 0
  /\ locals = [given |-> <<>>, args |-> <<>>]
  /\ history = <<>>
  /\ frames = <<>>

\* what one invocation leaves: the heap, and what the caller gets
Outcome(name, out, argv) ==
  /\ callee' = name
  /\ arguments' = argv
  /\ pre' = heap
  /\ heap' = out.heap
  /\ ret' = IF out.err = "none" THEN out.ret ELSE Undefined
  /\ err' = out.err
  /\ log' = out.log
  /\ fault' = out.fault
  /\ locals' = [given |-> out.given, args |-> out.args]
  /\ frames' = <<>>

\* the caller invokes fn on the environment as it stands
Invoke(name, out, argv) ==
  /\ Outcome(name, out, argv)
  /\ UNCHANGED history

\* no invocation made yet: h keeps nothing between invocations, so a behaviour
\* is one invocation on an environment the caller prepared
Idle == callee = "none"

Call_h ==
  /\ Idle
  /\ \E argv \in ArgLists : Invoke("h", h(Start(heap), 0, argv), argv)

Call_h_keys ==
  /\ Idle
  /\ \E argv \in ArgLists : Invoke("h_keys", h_keys(Start(heap), 0, argv), argv)

Call_h_index ==
  /\ Idle
  /\ \E argv \in ArgLists : Invoke("h_index", h_index(Start(heap), 0, argv), argv)

Next == Call_h \/ Call_h_keys \/ Call_h_index

Spec == Init /\ [][Next]_vars

(***************************************************************************)
(* The same invocations on an environment that refuses one operation.     *)
(***************************************************************************)
Fail_h ==
  /\ Idle
  /\ \E n \in 1..MaxFault : \E argv \in FaultArgLists :
       Invoke("h", h(StartFailing(heap, n), 0, argv), argv)

Fail_h_keys ==
  /\ Idle
  /\ \E n \in 1..MaxFault : \E argv \in FaultArgLists :
       Invoke("h_keys", h_keys(StartFailing(heap, n), 0, argv), argv)

NextFault == Fail_h \/ Fail_h_keys

SpecFault == Init /\ [][NextFault]_vars

(***************************************************************************)
(* Invocations made one after another on the same environment: each starts *)
(* on the heap the one before left.                                        *)
(***************************************************************************)
\* one invocation, as the caller saw it
Made(name, out, argv) ==
  [callee |-> name, arguments |-> argv, pre |-> heap, heap |-> out.heap,
   ret |-> IF out.err = "none" THEN out.ret ELSE Undefined, err |-> out.err,
   log |-> out.log]

Then(name, out, argv) ==
  /\ Outcome(name, out, argv)
  /\ history' = Append(history, Made(name, out, argv))

\* Then_h, had h kept a flag of the failure of an earlier invocation and
\* thrown again on it
Then_h_sticky ==
  /\ Len(history) < MaxCalls
  /\ \E argv \in SeqArgLists :
       Then("h", IF err # "none" THEN Throw(Start(heap), err)
                 ELSE h(Start(heap), 0, argv), argv)

Then_h ==
  /\ Len(history) < MaxCalls
  /\ \E argv \in SeqArgLists : Then("h", h(Start(heap), 0, argv), argv)

Then_h_keys ==
  /\ Len(history) < MaxCalls
  /\ \E argv \in SeqArgLists : Then("h_keys", h_keys(Start(heap), 0, argv), argv)

NextSeq == Then_h \/ Then_h_keys

SpecSeq == Init /\ [][NextSeq]_vars

(***************************************************************************)
(* One invocation of h (src/src/h.js 291-380) taken step by step.  frames  *)
(* holds what is still to do, first to last: an attribute of the for-in    *)
(* loop, a property of a deepCopy (with the path of its destination from   *)
(* the element), an item of a reduce(addChildren), the return.  A loop or  *)
(* a recursive call puts the frames of its body in place of its own.       *)
(***************************************************************************)
AttributeFrames(element, attributes) ==
  [i \in 1..Len(ForInKeys(attributes)) |->
     [k |-> "attribute", element |-> element, key |-> ForInKeys(attributes)[i],
      val |-> Member(attributes, ForInKeys(attributes)[i])]]

\* for (const prop in from), the destination being at path
PropertyFrames(element, path, from) ==
  [i \in 1..Len(ForInKeys(from)) |->
     [k |-> "property", element |-> element, path |-> path,
      prop |-> ForInKeys(from)[i], val |-> Member(from, ForInKeys(from)[i])]]

ItemFrames(element, items) ==
  [i \in 1..Len(items) |-> [k |-> "item", element |-> element, item |-> items[i]]]

\* Expanded, had the recursion gone over the items twice
Expanded_twice(element, item) ==
  ItemFrames(element, item.items) \o ItemFrames(element, item.items)

\* item.reduce(addChildren, element)
Expanded(element, item) == ItemFrames(element, item.items)

RECURSIVE GetIn(_, _)
\* the value reached from root along path
GetIn(root, path) ==
  IF path = <<>> THEN root ELSE GetIn(Member(root, Head(path)), Tail(path))

RECURSIVE PutIn(_, _, _)
\* root, the value at path being now v
PutIn(root, path, v) ==
  IF path = <<>> THEN v
  ELSE IF root.k = "object"
       THEN Obj(Put(root.fields, Head(path), PutIn(Member(root, Head(path)), Tail(path), v)))
       ELSE root

\* the invocation as it stands
Now ==
  [heap |-> heap, log |-> log, err |-> err, ret |-> ret, calls |-> 0, fault |-> 0,
   given |-> locals.given, args |-> locals.args]

\* a step leaves out, and todo still to do; a throw leaves nothing to do
Land(out, todo) ==
  /\ heap' = out.heap
  /\ log' = out.log
  /\ err' = out.err
  /\ locals' = [given |-> out.given, args |-> out.args]
  /\ frames' = IF out.err # "none" THEN <<>> ELSE todo
  /\ UNCHANGED <<fault, history>>

\* lines 291-348: the arguments, the element, the classification of args[0]
Enter ==
  /\ Idle
  /\ \E argv \in RunArgLists :
       LET args == toArray(argv, 1)
           s1 == elementFor(Entered(Start(heap), 0, argv), 0, tagOrDefault(argv))
           first == Arg(args, 0)
           yes == firstIsAttributes(first)
           rest == IF yes THEN [args EXCEPT ![1] = Null] ELSE args
           s2 == Classified(Placed(s1, 0, rest), 0, first, yes)
       IN /\ callee' = "h"
          /\ arguments' = argv
          /\ pre' = heap
          /\ ret' = Undefined
          /\ IF s1.err # "none" THEN Land(s1, <<>>)
             ELSE Land(s2, (IF yes THEN AttributeFrames(s1.ret, first) ELSE <<>>)
                             \o ItemFrames(s1.ret, rest)
                             \o <<[k |-> "return", element |-> s1.ret]>>)

\* lines 353-372, one key other than "$"
Attribute ==
  /\ frames # <<>>
  /\ Head(frames).k = "attribute"
  /\ Head(frames).key # "$"
  /\ LET f == Head(frames)
     IN Land(applyAttribute(Now, 0, f.element, f.key, f.val), Tail(frames))
  /\ UNCHANGED <<pre, callee, arguments, ret>>

\* line 365: deepCopy(element, attrVal) is entered
Properties ==
  /\ frames # <<>>
  /\ Head(frames).k = "attribute"
  /\ Head(frames).key = "$"
  /\ LET f == Head(frames)
     IN Land([Now EXCEPT !.log = Append(@, Event("deepCopy", 0, f.element.id, "$", f.val))],
             PropertyFrames(f.element, <<>>, f.val) \o Tail(frames))
  /\ UNCHANGED <<pre, callee, arguments, ret>>

\* lines 241-247, one prop of from
Property ==
  /\ frames # <<>>
  /\ Head(frames).k = "property"
  /\ LET f == Head(frames)
         root == Obj(heap[f.element.id].props)
         to == [val |-> GetIn(root, f.path), err |-> "none"]
         inner == TypeOf(f.val) = "object" /\ f.val # Null
         cur == Member(to.val, f.prop)
         written == Assign(to, f.prop,
                           IF inner THEN (IF Truthy(cur) THEN cur ELSE Obj(<<>>)) ELSE f.val)
     IN Land([Now EXCEPT !.heap[f.element.id].props = PutIn(root, f.path, written.val).fields,
                         !.err = written.err],
             (IF inner THEN PropertyFrames(f.element, Append(f.path, f.prop), f.val)
              ELSE <<>>) \o Tail(frames))
  /\ UNCHANGED <<pre, callee, arguments, ret>>

\* line 274: if (item == null) return element
Skip ==
  /\ frames # <<>>
  /\ Head(frames).k = "item"
  /\ Head(frames).item \in {Null, Undefined}
  /\ Land(Now, Tail(frames))
  /\ UNCHANGED <<pre, callee, arguments, ret>>

\* line 275: if (Array.isArray(item)) return item.reduce(addChildren, element)
Descend ==
  /\ frames # <<>>
  /\ Head(frames).k = "item"
  /\ Head(frames).item.k = "array"
  /\ Land(Now, Expanded(Head(frames).element, Head(frames).item) \o Tail(frames))
  /\ UNCHANGED <<pre, callee, arguments, ret>>

\* line 276: the leaf is appended, as it is or as a text node
Attach ==
  /\ frames # <<>>
  /\ Head(frames).k = "item"
  /\ Head(frames).item.k \notin {"null", "undefined", "array"}
  /\ Land(addChildren(Now, 0, Head(frames).element, Head(frames).item), Tail(frames))
  /\ UNCHANGED <<pre, callee, arguments, ret>>

\* line 379: the element is returned
Return ==
  /\ frames # <<>>
  /\ Head(frames).k = "return"
  /\ ret' = Head(frames).element
  /\ Land(Now, Tail(frames))
  /\ UNCHANGED <<pre, callee, arguments>>

NextRun ==
  Enter \/ Attribute \/ Properties \/ Property \/ Skip \/ Descend \/ Attach \/ Return

\* h runs to completion once called: nothing else takes a turn
SpecRun == Init /\ [][NextRun]_vars /\ WF_vars(NextRun)

(***************************************************************************)
(* Vocabulary of the properties.                                           *)
(***************************************************************************)
AttrOps == {"setAttribute", "removeAttribute"}
PropOps == {"deepCopy", "assign"}
ChildOps == {"createTextNode", "appendChild"}

\* the events of the given kinds logged at depth d
LogAt(d, ops) == SelectSeq(log, LAMBDA e : e.depth = d /\ e.op \in ops)

ArgsOf(events) == [i \in 1..Len(events) |-> events[i].arg]

\* the call was not handed to a callable tag
Outer == Arg(arguments, 0).k # "function"

rest == toArray(arguments, 1)

IsPrefix(p, q) == Len(p) <= Len(q) /\ SubSeq(q, 1, Len(p)) = p

RECURSIVE Leaves(_)
\* the non-empty leaves of nested children, depth first, left to right
Leaves(items) ==
  IF items = <<>> THEN <<>>
  ELSE LET x == Head(items)
       IN (IF x = Null \/ x = Undefined THEN <<>>
           ELSE IF x.k = "array" THEN Leaves(x.items)
           ELSE <<x>>) \o Leaves(Tail(items))

FalsyTags == {Undefined, Str(""), Null, NaN, Bool(FALSE), Num(0), Arr(<<>>)}

\* a tag the environment accepts: falsy, a valid name, or an element
GoodTag(t) ==
  \/ t \in FalsyTags
  \/ (t.k = "string" /\ VALID_TAG_NAME(t.s))
  \/ IsElement(pre, t)

\* the first rest entry is a plain object taken as attributes
PlainAttributes ==
  /\ Outer
  /\ Len(arguments) >= 2
  /\ arguments[2].k = "object"
  /\ ~Has(arguments[2].fields, "nodeType")

\* the first rest entry is a plain attributes object with a mapping under "$"
DollarAttributes ==
  /\ PlainAttributes
  /\ GoodTag(arguments[1])
  /\ Has(arguments[2].fields, "$")
  /\ Get(arguments[2].fields, "$").k = "object"

dollar == Get(arguments[2].fields, "$")

\* the properties the element had before the call; a new element has none
propsBefore ==
  IF IsElement(pre, arguments[1]) THEN pre[arguments[1].id].props ELSE <<>>

RECURSIVE Carries(_, _)
\* every leaf of the mapping `from` is in `to` at the same path, and every
\* container of `from` is a container of `to`
Carries(to, from) ==
  /\ to.k = "object"
  /\ \A i \in 1..Len(from.fields) :
       LET key == from.fields[i].key
           val == from.fields[i].val
       IN /\ Has(to.fields, key)
          /\ IF val.k = "object" THEN Carries(Get(to.fields, key), val)
             ELSE Get(to.fields, key) = val

RECURSIVE Clashes(_, _)
\* somewhere the mapping `from` has a mapping where `to` has a truthy scalar
Clashes(to, from) ==
  \E i \in 1..Len(from.fields) :
    LET key == from.fields[i].key
        val == from.fields[i].val
        cur == Get(to.fields, key)
    IN /\ val.k = "object"
       /\ IF cur.k = "object" THEN Clashes(cur, val) ELSE Truthy(cur)

\* the call copies a mapping onto a truthy scalar property of the element
DollarClash == DollarAttributes /\ Clashes(Obj(propsBefore), dollar)

(***************************************************************************)
(* C1: for every falsy tag (none, undefined, "", null, NaN, false, 0) and  *)
(* for the empty array, h calls createElement exactly once, with "div",    *)
(* and returns the element it got, whose tagName is "DIV".                 *)
(***************************************************************************)
C1_FalsyTagMakesDiv ==
  (callee = "h" /\ Arg(arguments, 0) \in FalsyTags) =>
    /\ err = "none"
    /\ LogAt(0, {"createElement"}) = <<Event("createElement", 0, 0, "", Str("div"))>>
    /\ Len(heap) = Len(pre) + 1
    /\ ret = Node(Len(heap))
    /\ heap[ret.id].nodeType = ELEMENT_NODE
    /\ heap[ret.id].tagName = "DIV"

C1_Witness ==
  /\ callee = "h"
  /\ arguments = <<Arr(<<>>)>>
  /\ ret = Node(3)
  /\ heap[3].tagName = "DIV"

(***************************************************************************)
(* C2: with a callable tag, h returns what the tag returns when applied to *)
(* all of rest, in order and unmodified, and the outer call itself does    *)
(* nothing on the environment; so h(h, t, attrs, children...) leaves the   *)
(* same heap, result and error as h(t, attrs, children...).                *)
(***************************************************************************)
C2_DelegationIsTransparent ==
  (callee = "h" /\ ~Outer) =>
    /\ LogAt(0, AttrOps \cup PropOps \cup ChildOps \cup {"createElement", "classify"}) = <<>>
    /\ Arg(arguments, 0).name = "component" =>
         (ret = Arr(rest) /\ err = "none" /\ heap = pre /\ log = <<>>)
    /\ Arg(arguments, 0).name = "h" =>
         LET direct == h(Start(pre), 0, rest)
         IN /\ heap = direct.heap
            /\ err = direct.err
            /\ ret = (IF direct.err = "none" THEN direct.ret ELSE Undefined)
            /\ log = [i \in 1..Len(direct.log) |->
                        [direct.log[i] EXCEPT !.depth = @ + 1]]

C2_Witness ==
  /\ callee = "h"
  /\ arguments = <<Fn("h"), Str("a"), Obj(<<Field("id", Str("x"))>>), Str("hello")>>
  /\ ret = Node(3)
  /\ heap[3].tagName = "A"
  /\ heap[3].attributes = <<Field("id", Str("x"))>>
  /\ heap[3].children = <<Str("hello")>>

(***************************************************************************)
(* C3: with an existing element as tag, h never calls createElement and    *)
(* returns that same element; with no further argument the element's       *)
(* attributes, properties and children are as before.  (The one call that  *)
(* returns nothing is the copy of a mapping onto a scalar property, C12.)  *)
(***************************************************************************)
C3_ExistingElementReturned ==
  (callee = "h" /\ IsElement(pre, Arg(arguments, 0))) =>
    /\ LogAt(0, {"createElement"}) = <<>>
    /\ ~DollarClash => (err = "none" /\ ret = Arg(arguments, 0))
    /\ Len(arguments) = 1 => heap = pre

C3_Witness ==
  /\ callee = "h"
  /\ arguments = <<Node(1)>>
  /\ ret = Node(1)
  /\ heap[1].children = <<Str("t")>>

(***************************************************************************)
(* C4: h(existingElement, attrs, children...) returns existingElement      *)
(* itself; no element is created; the children it had before the call are  *)
(* a prefix of its children after the call, the new ones following in the  *)
(* order they were appended; the attributes of attrs are set on it.  (The  *)
(* copy of a mapping onto a scalar property, C12, is left aside.)          *)
(***************************************************************************)
C4_MutatesInPlace ==
  (callee = "h" /\ IsElement(pre, Arg(arguments, 0)) /\ Len(arguments) >= 2
     /\ ~DollarClash) =>
    LET id == Arg(arguments, 0).id
        attrs == Arg(arguments, 1)
    IN /\ err = "none"
       /\ ret = Node(id)
       /\ Len(heap) = Len(pre)
       /\ IsPrefix(pre[id].children, heap[id].children)
       /\ heap[id].children = pre[id].children \o ArgsOf(LogAt(0, {"appendChild"}))
       /\ (attrs.k = "object" /\ ~Has(attrs.fields, "nodeType")) =>
            \A i \in 1..Len(attrs.fields) :
              (attrs.fields[i].key # "$" /\ attrs.fields[i].val # Null
                 /\ attrs.fields[i].val # Undefined) =>
                 Get(heap[id].attributes, attrs.fields[i].key) = attrs.fields[i].val

C4_Witness ==
  /\ callee = "h"
  /\ arguments = <<Node(1), Obj(<<Field("class", Str("w"))>>), Str("hello")>>
  /\ ret = Node(1)
  /\ pre[1].children = <<Str("t")>>
  /\ heap[1].children = <<Str("t"), Str("hello")>>
  /\ Get(heap[1].attributes, "class") = Str("w")

(***************************************************************************)
(* C5: isAttributes is true of null, of a plain object without a nodeType  *)
(* key, of a Map and of a WeakMap, and false of undefined and of every     *)
(* string, number, boolean, array, element and callable; the inline test   *)
(* of h decides its first rest entry the same way.  The decisions are read *)
(* where the two generations of src/src/h.js take them.                    *)
(***************************************************************************)
AttributesShaped(v) ==
  CASE v.k \in {"null", "Map", "WeakMap"} -> TRUE
    [] v.k = "object" -> ~Has(v.fields, "nodeType")
    [] v.k \in {"undefined", "string", "number", "NaN", "boolean", "array",
                "node", "function"} -> FALSE

C5_ClassifierTable ==
  (callee \in {"h", "h_keys"} /\ Outer /\ LogAt(0, {"classify"}) # <<>>) =>
    LET decided == LogAt(0, {"classify"})[1]
    IN /\ decided.arg = Arg(rest, 0)
       /\ (decided.key = "attributes") = AttributesShaped(decided.arg)
       /\ isAttributes(decided.arg) = firstIsAttributes(decided.arg)

C5_Witness ==
  /\ callee = "h"
  /\ arguments = <<Str("a"), WeakMapOf(<<>>), Null>>
  /\ LogAt(0, {"classify"}) = <<Event("classify", 0, 0, "attributes", WeakMapOf(<<>>))>>
  /\ heap[3].children = <<>>

(***************************************************************************)
(* C6: a plain object that has a nodeType key is classified as not         *)
(* attributes whatever the value under that key (0, a non-number, a number *)
(* above 11), by every classifier of the repository, and so is handled as  *)
(* the first child: nothing is set or removed for it.                      *)
(***************************************************************************)
\* the first rest entry is a plain object with a nodeType key
MarkedFirst ==
  /\ Outer
  /\ Len(arguments) >= 2
  /\ arguments[2].k = "object"
  /\ Has(arguments[2].fields, "nodeType")

C6_NodeTypeKeyIsChild ==
  (callee \in {"h", "h_keys", "h_index"} /\ MarkedFirst /\ LogAt(0, {"classify"}) # <<>>) =>
    /\ LogAt(0, {"classify"})[1].key = "child"
    /\ LogAt(0, AttrOps \cup PropOps) = <<>>

\* the part of C6 that the two classifiers of src/src/h.js satisfy
C6_NodeTypeKeyIsChild_h ==
  (callee \in {"h", "h_keys"} /\ MarkedFirst /\ LogAt(0, {"classify"}) # <<>>) =>
    /\ LogAt(0, {"classify"})[1].key = "child"
    /\ LogAt(0, AttrOps \cup PropOps) = <<>>

(***************************************************************************)
(* C7: only the first entry of rest is classified.  When it is taken as    *)
(* attributes it is neither appended nor made a text node, and the entries *)
(* after it are the children; otherwise every entry of rest, the first     *)
(* included, is a child.  No attribute or property is written but for a    *)
(* key of that first entry.                                                *)
(***************************************************************************)
C7_OnlyFirstClassified ==
  (callee = "h" /\ Outer /\ err = "none") =>
    LET decided == LogAt(0, {"classify"})
        taken == decided[1].key = "attributes"
        kids == IF taken THEN Tail(rest) ELSE rest
    IN /\ Len(decided) = 1
       /\ decided[1].arg = Arg(rest, 0)
       /\ ArgsOf(LogAt(0, {"appendChild"})) = Leaves(kids)
       /\ \A i \in 1..Len(LogAt(0, {"createTextNode"})) :
            \E j \in 1..Len(Leaves(kids)) :
               LogAt(0, {"createTextNode"})[i].arg = Leaves(kids)[j]
       /\ \A i \in 1..Len(LogAt(0, AttrOps \cup PropOps)) :
            /\ taken
            /\ Has(Arg(rest, 0).fields, LogAt(0, AttrOps \cup PropOps)[i].key)

C7_Witness ==
  /\ callee = "h"
  /\ arguments = <<Str("a"), Obj(<<Field("class", Str("w"))>>), Obj(<<Field("id", Str("x"))>>)>>
  /\ ret = Node(3)
  /\ heap[3].attributes = <<Field("class", Str("w"))>>
  /\ heap[3].children = <<Obj(<<Field("id", Str("x"))>>)>>

(***************************************************************************)
(* C8: in the calling convention of compiled JSX, h(tag, null, child1,     *)
(* ..., childN), the call raises nothing, sets and removes no attribute,   *)
(* writes no property, and attaches child1..childN in order as the only    *)
(* new children of the element.                                            *)
(***************************************************************************)
C8_NullAttributesJsx ==
  (/\ callee \in {"h", "h_keys"}
   /\ Len(arguments) >= 2
   /\ arguments[2] = Null
   /\ GoodTag(arguments[1])) =>
    /\ err = "none"
    /\ LogAt(0, AttrOps \cup PropOps) = <<>>
    /\ ArgsOf(LogAt(0, {"appendChild"})) = Leaves(Tail(rest))
    /\ ret.k = "node"
    /\ heap[ret.id].children =
         (IF ret.id <= Len(pre) THEN pre[ret.id].children ELSE <<>>) \o Leaves(Tail(rest))

(***************************************************************************)
(* C9: for every key k other than "$" of the attributes value whose value  *)
(* v is neither null nor undefined, h calls setAttribute(k, v) with v as   *)
(* given, and the element's attribute k holds v after the call.            *)
(***************************************************************************)
C9_AttributeSet ==
  (callee = "h" /\ PlainAttributes /\ err = "none") =>
    \A i \in 1..Len(arguments[2].fields) :
      LET key == arguments[2].fields[i].key
          val == arguments[2].fields[i].val
      IN (key # "$" /\ val # Null /\ val # Undefined) =>
           /\ \E j \in 1..Len(log) : log[j] = Event("setAttribute", 0, ret.id, key, val)
           /\ Get(heap[ret.id].attributes, key) = val

C9_Witness ==
  /\ callee = "h"
  /\ arguments = <<Str("a"), Obj(<<Field("href", Undefined), Field("id", Num(0))>>)>>
  /\ ret = Node(3)
  /\ heap[3].attributes = <<Field("id", Num(0))>>

(***************************************************************************)
(* C10: for every key k other than "$" of the attributes value whose value *)
(* is null or undefined, the element has no attribute k after the call:    *)
(* none is set on a new element, and one that an existing element had is   *)
(* removed.                                                                *)
(***************************************************************************)
C10_AttributeRemoved ==
  (callee = "h" /\ PlainAttributes /\ err = "none") =>
    \A i \in 1..Len(arguments[2].fields) :
      LET key == arguments[2].fields[i].key
          val == arguments[2].fields[i].val
      IN (key # "$" /\ (val = Null \/ val = Undefined)) =>
           /\ ~Has(heap[ret.id].attributes, key)
           /\ \A j \in 1..Len(log) : ~(log[j].op = "setAttribute" /\ log[j].key = key)

C10_Witness ==
  /\ callee = "h"
  /\ Len(arguments) = 2
  /\ arguments[1] = Node(1)
  /\ arguments[2] = Obj(<<Field("href", Null), Field("class", Str("w"))>>)
  /\ Has(pre[1].attributes, "href")
  /\ ~Has(heap[1].attributes, "href")
  /\ ret = Node(1)

RECURSIVE Merged(_, _, _)
\* `to` after the first i members of `from` were merged into it by that rule
Merged(to, from, i) ==
  IF i = 0 THEN to
  ELSE LET done == Merged(to, from, i - 1)
           key == from.fields[i].key
           val == from.fields[i].val
           cur == Get(done.fields, key)
       IN Obj(Put(done.fields, key,
                  IF val.k = "object" /\ cur.k = "object"
                  THEN Merged(cur, val, Len(val.fields))
                  ELSE val))

C12_MergeRule ==
  (callee = "h" /\ DollarAttributes) =>
    /\ err = "none"
    /\ heap[ret.id].props = Merged(Obj(propsBefore), dollar, Len(dollar.fields)).fields

\* the part of C12 that deepCopy satisfies: the rule, where no mapping meets
\* a truthy scalar
C12_MergeRule_noClash ==
  (callee = "h" /\ DollarAttributes /\ ~DollarClash) =>
    /\ err = "none"
    /\ heap[ret.id].props = Merged(Obj(propsBefore), dollar, Len(dollar.fields)).fields

\* where a mapping meets a truthy scalar, the call throws and copies nothing
C12_ClashThrows ==
  (callee = "h" /\ DollarClash) =>
    /\ err = "TypeError"
    /\ heap[arguments[1].id].props = propsBefore

(***************************************************************************)
(* Children.                                                               *)
(***************************************************************************)
\* the entries of rest that are children: all of them, but for a first entry
\* taken as attributes
kids == IF LogAt(0, {"classify"})[1].key = "attributes" THEN Tail(rest) ELSE rest

\* the element had these children before the call; a new element has none
childrenBefore ==
  IF IsElement(pre, Arg(arguments, 0)) THEN pre[Arg(arguments, 0).id].children ELSE <<>>

RECURSIVE Flat(_)
\* nested sequences expanded in place, depth first, nothing left out
Flat(items) ==
  IF items = <<>> THEN <<>>
  ELSE (IF Head(items).k = "array" THEN Flat(Head(items).items) ELSE <<Head(items)>>)
       \o Flat(Tail(items))

Skipped(x) == x = Null \/ x = Undefined

\* the call went through both generations' addChildren and returned
ChildrenAdded == callee \in {"h", "h_keys"} /\ Outer /\ err = "none"

(***************************************************************************)
(* C13: the nodes one call appends to the element are the depth-first,     *)
(* left-to-right flattening of the children supplied, nested to any depth: *)
(* the element's children after the call are those it had, followed by the *)
(* leaves in their order, each once.                                       *)
(***************************************************************************)
C13_FlattenedInOrder ==
  ChildrenAdded =>
    /\ heap[ret.id].children = childrenBefore \o Leaves(kids)
    /\ Len(LogAt(0, {"appendChild"})) = Len(Leaves(kids))
    /\ \A j \in 1..Len(LogAt(0, {"appendChild"})) :
         LogAt(0, {"appendChild"})[j].target = ret.id

C13_Witness ==
  /\ callee = "h"
  /\ arguments = <<Node(1),
                   Arr(<<Str("u"), Arr(<<Null, Node(2)>>)>>),
                   Arr(<<Str("u"), Arr(<<Undefined, Arr(<<Str("v"), Node(2)>>)>>)>>),
                   Str("hello")>>
  /\ pre[1].children = <<Str("t")>>
  /\ heap[1].children =
       <<Str("t"), Str("u"), Node(2), Str("u"), Str("v"), Node(2), Str("hello")>>

(***************************************************************************)
(* C14: every child a call attaches is a node handle: a value that was a   *)
(* node when supplied, or the text node that createTextNode returned for   *)
(* it just before; no sequence is appended, and no scalar or mapping is    *)
(* appended but as the text node made from it.                             *)
(***************************************************************************)
C14_ChildrenAreNodes ==
  ChildrenAdded =>
    \A j \in 1..Len(log) :
      (log[j].op = "appendChild" /\ log[j].depth = 0) =>
        /\ log[j].arg.k # "array"
        /\ \/ Truthy(nodeTypeOf(pre, log[j].arg))
           \/ /\ j > 1
              /\ log[j - 1] = Event("createTextNode", 0, 0, "", log[j].arg)
              /\ createTextNode(Start(pre), 0, log[j - 1].arg).ret = log[j].arg

C14_Witness ==
  /\ callee = "h"
  /\ arguments = <<Str("a"), Null, Obj(<<Field("id", Str("x"))>>), Node(2)>>
  /\ ArgsOf(LogAt(0, {"createTextNode"})) = <<Obj(<<Field("id", Str("x"))>>)>>
  /\ heap[3].children = <<Obj(<<Field("id", Str("x"))>>), Node(2)>>

(***************************************************************************)
(* C15: a child item is skipped (no createTextNode, no appendChild) if and *)
(* only if it is null or undefined, at any nesting depth; every other item *)
(* that is neither a sequence nor a node, the falsy scalars 0, false and   *)
(* "" included, gets exactly one createTextNode call with that item and    *)
(* one appended text node.                                                 *)
(***************************************************************************)
C15_OnlyNullishSkipped ==
  ChildrenAdded =>
    /\ ArgsOf(LogAt(0, {"createTextNode"})) =
         SelectSeq(Flat(kids), LAMBDA x : ~Skipped(x) /\ ~Truthy(nodeTypeOf(pre, x)))
    /\ ArgsOf(LogAt(0, {"appendChild"})) =
         SelectSeq(Flat(kids), LAMBDA x : ~Skipped(x))

C15_Witness ==
  /\ callee = "h"
  /\ arguments = <<Str("a"), Bool(FALSE), Num(0),
                   Arr(<<Str("u"), Arr(<<Undefined, Arr(<<Str("v"), Node(2)>>)>>)>>)>>
  /\ ArgsOf(LogAt(0, {"createTextNode"})) = <<Bool(FALSE), Num(0), Str("u"), Str("v")>>
  /\ heap[3].children = <<Bool(FALSE), Num(0), Str("u"), Str("v"), Node(2)>>

(***************************************************************************)
(* Tags.                                                                   *)
(***************************************************************************)
\* the name asked of createElement for a tag that is neither callable nor an
\* element: the default for a falsy tag, else the tag's string representation
TagName(t) == IF t \in FalsyTags THEN "div" ELSE ToStr(t)

\* the call is to make a new element
MakesElement == Outer /\ ~IsElement(pre, Arg(arguments, 0))

(***************************************************************************)
(* C16: when createElement refuses the string-coerced tag name (h(123),    *)
(* h({})), h raises that same error, returns no element, and does nothing  *)
(* else on the environment: no attribute set or removed, no property       *)
(* written, no child appended, whatever attributes and children were       *)
(* supplied.                                                               *)
(***************************************************************************)
C16_InvalidTagPropagates ==
  (callee \in {"h", "h_keys"} /\ MakesElement
     /\ ~VALID_TAG_NAME(TagName(Arg(arguments, 0)))) =>
    /\ err = "InvalidCharacterError"
    /\ ret = Undefined
    /\ heap = pre
    /\ log = <<Event("createElement", 0, 0, "", Str(TagName(Arg(arguments, 0))))>>

C16_Witness ==
  /\ callee = "h"
  /\ arguments = <<Obj(<<>>), Obj(<<Field("class", Str("w"))>>), Str("hello")>>
  /\ err = "InvalidCharacterError"
  /\ log = <<Event("createElement", 0, 0, "", Str("[object Object]"))>>
  /\ heap = pre

(***************************************************************************)
(* C17: every tag that is neither callable nor an element is converted to  *)
(* its string representation and passed to createElement (h(true) makes a  *)
(* "true" element, tagName "TRUE"); h raises no error of its own for any   *)
(* tag value, so a call with a tag alone fails only when the environment   *)
(* refuses the name.  Every h of the repository is read.                   *)
(***************************************************************************)
C17_TagCoerced ==
  (callee \in {"h", "h_keys", "h_index"} /\ MakesElement) =>
    LET name == TagName(Arg(arguments, 0))
    IN /\ LogAt(0, {"createElement"}) = <<Event("createElement", 0, 0, "", Str(name))>>
       /\ Len(arguments) <= 1 =>
            /\ err = (IF VALID_TAG_NAME(name) THEN "none" ELSE "InvalidCharacterError")
            /\ err = "none" => heap[ret.id].tagName = toUpperCase(name)

\* the part of C17 that the two generations of src/src/h.js satisfy
C17_TagCoerced_h ==
  (callee \in {"h", "h_keys"} /\ MakesElement) =>
    LET name == TagName(Arg(arguments, 0))
    IN /\ LogAt(0, {"createElement"}) = <<Event("createElement", 0, 0, "", Str(name))>>
       /\ Len(arguments) <= 1 =>
            /\ err = (IF VALID_TAG_NAME(name) THEN "none" ELSE "InvalidCharacterError")
            /\ err = "none" => heap[ret.id].tagName = toUpperCase(name)

\* what src/src/index.js does with a tag that is not a string: it throws its
\* own TypeError and never asks the environment
C17_IndexRefuses ==
  (callee = "h_index" /\ MakesElement /\ Len(arguments) >= 1
     /\ arguments[1] \notin {Undefined, Null, NaN, Bool(FALSE), Num(0), Str("")}
     /\ arguments[1].k # "string") =>
    /\ err = "TypeError"
    /\ log = <<>>

(***************************************************************************)
(* C18: for every non-empty string s that the environment accepts as a tag *)
(* name, h(s) calls createElement exactly once, with exactly s, and        *)
(* returns the element it got back, whose tagName is s in upper case.      *)
(***************************************************************************)
C18_StringTagMakesElement ==
  (/\ callee \in {"h", "h_keys", "h_index"}
   /\ Len(arguments) >= 1
   /\ arguments[1].k = "string"
   /\ arguments[1].s # ""
   /\ VALID_TAG_NAME(arguments[1].s)) =>
    /\ LogAt(0, {"createElement"}) = <<Event("createElement", 0, 0, "", arguments[1])>>
    /\ Len(heap) = Len(pre) + 1
    /\ heap[Len(heap)].tagName = toUpperCase(arguments[1].s)
    /\ Len(arguments) = 1 =>
         /\ err = "none"
         /\ ret = Node(Len(heap))
         /\ heap = Append(pre, HTMLElementLike(arguments[1].s))
         /\ Len(SelectSeq(log, LAMBDA e : e.op # "classify")) = 1

C18_Witness ==
  /\ callee = "h"
  /\ arguments = <<Str("made-up")>>
  /\ ret = Node(3)
  /\ heap[3].tagName = "MADE-UP"
  /\ log[1] = Event("createElement", 0, 0, "", Str("made-up"))

(***************************************************************************)
(* Attributes that are not plain objects.                                  *)
(***************************************************************************)
\* the call makes or takes an element and has a first rest entry
HasFirst == Outer /\ Len(arguments) >= 2 /\ GoodTag(arguments[1])

\* the same call, the Map or WeakMap replaced by the plain Object that has
\* its members
asObject == [arguments EXCEPT ![2] = Obj(@.entries)]

(***************************************************************************)
(* C19: when the second argument is a Map or a WeakMap, its members are    *)
(* added to the element as attributes (and removed when a member's value   *)
(* is null or undefined) exactly as the members of a plain Object are: the *)
(* call leaves the environment as the call with that plain Object does.    *)
(***************************************************************************)
C19_MapMembersAreAttributes ==
  (callee \in {"h", "h_keys"} /\ HasFirst /\ arguments[2].k \in {"Map", "WeakMap"}) =>
    LET plain == IF callee = "h" THEN h(Start(pre), 0, asObject)
                 ELSE h_keys(Start(pre), 0, asObject)
    IN /\ err = plain.err
       /\ heap = plain.heap
       /\ LogAt(0, AttrOps) = SelectSeq(plain.log, LAMBDA e : e.op \in AttrOps)

\* what the code does with a Map or a WeakMap: it is taken as attributes and
\* none of its members is looked at
C19_MapIsIgnored ==
  (callee \in {"h", "h_keys"} /\ HasFirst /\ arguments[2].k \in {"Map", "WeakMap"}) =>
    /\ err = "none"
    /\ LogAt(0, {"classify"})[1].key = "attributes"
    /\ LogAt(0, AttrOps \cup PropOps) = <<>>
    /\ heap[ret.id].attributes =
         (IF IsElement(pre, arguments[1]) THEN pre[ret.id].attributes ELSE <<>>)

(***************************************************************************)
(* C20: when the first rest entry is taken as attributes but its keys      *)
(* cannot be iterated (null, a Map, a WeakMap), attribute processing is a  *)
(* silent no-op: no error, no attribute set or removed, the entry is not   *)
(* attached as a child, and the entries after it are attached as usual.    *)
(* Both generations of src/src/h.js are read.                              *)
(***************************************************************************)
C20_UniterableIsNoOp ==
  (callee \in {"h", "h_keys"} /\ HasFirst
     /\ arguments[2].k \in {"null", "Map", "WeakMap"}) =>
    /\ err = "none"
    /\ LogAt(0, AttrOps \cup PropOps) = <<>>
    /\ ArgsOf(LogAt(0, {"appendChild"})) = Leaves(Tail(rest))
    /\ heap[ret.id].children = childrenBefore \o Leaves(Tail(rest))

\* the part of C20 that the code satisfies: the for-in loop on every such
\* entry, and Object.keys on a Map and on a WeakMap
C20_UniterableIsNoOp_forIn ==
  (callee \in {"h", "h_keys"} /\ HasFirst
     /\ arguments[2].k \in {"null", "Map", "WeakMap"}
     /\ (callee = "h_keys" => arguments[2] # Null)) =>
    /\ err = "none"
    /\ LogAt(0, AttrOps \cup PropOps) = <<>>
    /\ ArgsOf(LogAt(0, {"appendChild"})) = Leaves(Tail(rest))
    /\ heap[ret.id].children = childrenBefore \o Leaves(Tail(rest))

(***************************************************************************)
(* Failures of the environment.                                            *)
(***************************************************************************)
EnvOps == {"createElement", "createTextNode", "appendChild", "setAttribute",
           "removeAttribute", "insertBefore"}

\* the same call on an environment that refuses nothing
unfailing ==
  IF callee = "h" THEN h(Start(pre), 0, arguments) ELSE h_keys(Start(pre), 0, arguments)

RECURSIVE Before(_, _)
\* the events that come before the n-th operation asked of the environment
Before(events, n) ==
  IF events = <<>> THEN <<>>
  ELSE IF Head(events).op \in EnvOps
       THEN IF n = 1 THEN <<>> ELSE <<Head(events)>> \o Before(Tail(events), n - 1)
       ELSE <<Head(events)>> \o Before(Tail(events), n)

RECURSIVE Replayed(_, _)
\* the attributes an element has after the attribute operations of events
Replayed(attributes, events) ==
  IF events = <<>> THEN attributes
  ELSE LET e == Head(events)
       IN Replayed(IF e.op = "setAttribute" THEN Put(attributes, e.key, e.arg)
                   ELSE IF e.op = "removeAttribute" THEN Del(attributes, e.key)
                   ELSE attributes,
                   Tail(events))

\* the element of the call: the one given, or the one createElement made
target == IF IsElement(pre, Arg(arguments, 0)) THEN Arg(arguments, 0).id ELSE Len(pre) + 1

(***************************************************************************)
(* C21: h does not roll back.  When the environment refuses an operation   *)
(* part-way through a call (a setAttribute, a removeAttribute, or the      *)
(* createTextNode or appendChild of the k-th flattened child), that error  *)
(* reaches the caller and nothing is returned; what was done before it     *)
(* stays: the attributes already set or removed, the properties already    *)
(* copied and the children already appended are on the element, and        *)
(* nothing is attached after it.                                           *)
(***************************************************************************)
C21_NoRollback ==
  (callee \in {"h", "h_keys"} /\ fault > 0) =>
    LET asked == SelectSeq(unfailing.log, LAMBDA e : e.op \in EnvOps)
        done == Before(unfailing.log, fault)
    IN IF fault > Len(asked)
       THEN heap = unfailing.heap /\ err = unfailing.err /\ log = unfailing.log
       ELSE /\ err = "EnvironmentError"
            /\ ret = Undefined
            /\ log = done
            /\ IF target > Len(heap) THEN heap = pre
               ELSE /\ heap[target].attributes =
                         Replayed(IF target <= Len(pre) THEN pre[target].attributes
                                  ELSE <<>>, done)
                    /\ heap[target].props =
                         (IF \E i \in 1..Len(done) : done[i].op \in PropOps
                          THEN unfailing.heap[target].props
                          ELSE IF target <= Len(pre) THEN pre[target].props ELSE <<>>)
                    /\ heap[target].children =
                         (IF target <= Len(pre) THEN pre[target].children ELSE <<>>)
                           \o ArgsOf(SelectSeq(done, LAMBDA e : e.op = "appendChild"))
                    /\ \A j \in 1..Len(pre) : j # target => heap[j] = pre[j]

C21_Witness ==
  /\ callee = "h"
  /\ fault = 6
  /\ arguments = <<Str("a"), Obj(<<Field("href", Null), Field("class", Str("w"))>>),
                   Str("hello"), Node(2)>>
  /\ err = "EnvironmentError"
  /\ heap[3].attributes = <<Field("class", Str("w"))>>
  /\ heap[3].children = <<Str("hello")>>


(***************************************************************************)
(* C22: h keeps no state between invocations.  What an invocation leaves   *)
(* and returns depends on its arguments and on the environment it starts   *)
(* on, and on nothing else: it is what the same invocation gives when it   *)
(* is the first one made, and two invocations of one behaviour with equal  *)
(* arguments on equal environments have equal outcomes, whatever was       *)
(* called between them.                                                    *)
(***************************************************************************)
alone(r) ==
  IF r.callee = "h" THEN h(Start(r.pre), 0, r.arguments)
  ELSE h_keys(Start(r.pre), 0, r.arguments)

C23_Phases ==
  (callee = "h" /\ Outer) =>
    LET made == SelectSeq(log, LAMBDA e : e.op = "createElement")
        classified == SelectSeq(log, LAMBDA e : e.op = "classify")
    IN /\ Len(made) <= 1
       /\ Len(made) = 1 => log[1].op = "createElement"
       /\ IsElement(pre, Arg(arguments, 0)) <=> made = <<>>
       /\ Len(classified) = (IF err = "InvalidCharacterError" THEN 0 ELSE 1)
       /\ \A i \in 1..Len(log) :
            log[i].op = "classify" =>
              /\ log[i].arg = Arg(arguments, 1)
              /\ i = Len(made) + 1
       /\ \A i, j \in 1..Len(log) :
            (log[i].op \in ChildOps /\ log[j].op \in AttrOps \cup PropOps) => j < i

C23_Witness ==
  /\ callee = "h"
  /\ arguments = <<Str("a"),
                   Obj(<<Field("$", Obj(<<Field("style", Obj(<<Field("color", Str("grey"))>>))>>)),
                         Field("id", Str("x"))>>),
                   Str("hello"), Node(2)>>
  /\ err = "none"
  /\ [i \in 1..Len(log) |-> log[i].op] =
       <<"createElement", "classify", "deepCopy", "setAttribute",
         "createTextNode", "appendChild", "appendChild">>

(***************************************************************************)
(* C24: a tag is taken as the element only when its nodeType is 1.  A tag  *)
(* that carries another node marker (a document fragment, nodeType 11; a   *)
(* text node, nodeType 3) is never returned and never mutated: it is       *)
(* coerced to a string and that string is passed to createElement.  And    *)
(* the element returned is one that was there before the call only when it *)
(* is the tag and its nodeType is 1.                                       *)
(***************************************************************************)
OtherNode(t) == Truthy(nodeTypeOf(pre, t)) /\ nodeTypeOf(pre, t) # Num(ELEMENT_NODE)

C24_OnlyElementIsTarget ==
  (callee \in {"h", "h_keys"} /\ Outer) =>
    /\ OtherNode(Arg(arguments, 0)) =>
         /\ ret # arguments[1]
         /\ SubSeq(heap, 1, Len(pre)) = pre
         /\ log # <<>>
         /\ log[1] = Event("createElement", 0, 0, "", Str(ToStr(arguments[1])))
    /\ (ret.k = "node" /\ ret.id <= Len(pre)) =>
         /\ ret = arguments[1]
         /\ pre[ret.id].nodeType = ELEMENT_NODE
         /\ \A i \in 1..Len(log) : log[i].op # "createElement"

C24_Witness ==
  /\ callee = "h"
  /\ arguments = <<Node(2), Obj(<<Field("class", Str("w"))>>), Str("hello")>>
  /\ pre[2].nodeType = DOCUMENT_FRAGMENT_NODE
  /\ log = <<Event("createElement", 0, 0, "", Str("[object Object]"))>>
  /\ err = "InvalidCharacterError"
  /\ heap = pre

(***************************************************************************)
(* C25: every child item that carries a nodeType key is appended as it is  *)
(* and is never passed to createTextNode, whatever the value under         *)
(* nodeType, 0 and the other falsy values included.                        *)
(***************************************************************************)
C25_MarkedItemsAppended ==
  (callee \in {"h", "h_keys"} /\ Outer) =>
    \A i \in 1..Len(log) : log[i].op = "createTextNode" => ~hasNodeType(log[i].arg)

\* what the code does: the test is on the value of nodeType, not on the key;
\* an item whose nodeType is truthy is never passed to createTextNode
C25_TruthyMarkedAppended ==
  (callee \in {"h", "h_keys"} /\ Outer) =>
    \A i \in 1..Len(log) :
      log[i].op = "createTextNode" => ~Truthy(nodeTypeOf(pre, log[i].arg))

(***************************************************************************)
(* C26: addChildren of src/src/index.js leaves on the element the          *)
(* depth-first, left-to-right flattening of the non-null leaves of the     *)
(* children, in the order supplied, after the children the element had; a  *)
(* nested array is only recursed into and is never itself made a text      *)
(* node.  ("a", "b") end up as a, b.                                       *)
(***************************************************************************)
C26_IndexFlattensInOrder ==
  (callee = "h_index" /\ Outer /\ err = "none" /\ ret.k = "node") =>
    /\ heap[ret.id].children = childrenBefore \o Leaves(kids)
    /\ \A i \in 1..Len(log) : log[i].op = "createTextNode" => log[i].arg.k # "array"

RECURSIVE Backwards(_)
Backwards(items) ==
  IF items = <<>> THEN <<>> ELSE Append(Backwards(Tail(items)), Head(items))

\* what the code does with children that hold no array: they stand in the
\* reverse of the order supplied, before the children the element had
C26_IndexReverses ==
  (callee = "h_index" /\ Outer /\ err = "none" /\ ret.k = "node"
     /\ \A i \in 1..Len(kids) : kids[i].k # "array") =>
    heap[ret.id].children = Backwards(Leaves(kids)) \o childrenBefore

Named(from, key) == \E i \in 1..Len(ForInKeys(from)) : ForInKeys(from)[i] = key

RECURSIVE Keeps(_, _, _)
\* every field of `was` that `from` does not name is in `now` with its value
Keeps(now, was, from) ==
  /\ now.k = "object"
  /\ \A i \in 1..Len(was.fields) :
       LET key == was.fields[i].key
           old == was.fields[i].val
       IN IF ~Named(from, key)
          THEN Has(now.fields, key) /\ Get(now.fields, key) = old
          ELSE (TypeOf(Member(from, key)) = "object" /\ Member(from, key) # Null
                  /\ old.k = "object") =>
                 Keeps(Get(now.fields, key), old, Member(from, key))

C28_UnnamedKept ==
  (callee = "h" /\ Outer /\ target <= Len(heap)) =>
    LET classified == SelectSeq(log, LAMBDA e : e.op = "classify")
        taken == classified # <<>> /\ classified[1].key = "attributes"
        attributes == IF taken THEN arguments[2] ELSE Obj(<<>>)
        was == IF target <= Len(pre) THEN pre[target] ELSE HTMLElementLike("div")
        now == heap[target]
    IN /\ \A i \in 1..Len(was.attributes) :
            LET key == was.attributes[i].key
            IN ~Named(attributes, key) =>
                 /\ Has(now.attributes, key)
                 /\ Get(now.attributes, key) = was.attributes[i].val
       /\ \A i \in 1..Len(now.attributes) :
            ~Named(attributes, now.attributes[i].key) =>
              Has(was.attributes, now.attributes[i].key)
       /\ IF Named(attributes, "$")
          THEN Keeps(Obj(now.props), Obj(was.props), Member(attributes, "$"))
          ELSE now.props = was.props

C28_Witness ==
  /\ callee = "h"
  /\ arguments = <<Node(1),
                   Obj(<<Field("$", Obj(<<Field("style", Obj(<<Field("color", Str("grey"))>>))>>)),
                         Field("id", Str("x"))>>),
                   Str("hello")>>
  /\ err = "none"
  /\ pre[1].attributes = <<Field("href", Str("x"))>>
  /\ Get(heap[1].attributes, "href") = Str("x")
  /\ Get(Get(pre[1].props, "style").fields, "display") = Str("none")
  /\ Get(Get(heap[1].props, "style").fields, "display") = Str("none")
  /\ Get(Get(heap[1].props, "style").fields, "color") = Str("grey")
  /\ Get(heap[1].props, "title") = Str("t")

(***************************************************************************)
(* C29: for every tag and every list of children, h(tag, null, c1, ..., cN) *)
(* and h(tag, undefined, c1, ..., cN) leave the same: the same element     *)
(* with the same tag name, attributes and children, or the same error.     *)
(* null is classified as attributes and iterated as empty; undefined is    *)
(* classified as a child and skipped.                                      *)
(***************************************************************************)
withUndefined == h(Start(pre), 0, [arguments EXCEPT ![2] = Undefined])

EnvLog(events) == SelectSeq(events, LAMBDA e : e.op # "classify")

RECURSIVE Sum(_)
Sum(ns) == IF ns = <<>> THEN 0 ELSE Head(ns) + Sum(Tail(ns))

RECURSIVE Size(_)
\* the items in a child, itself included
Size(item) ==
  1 + (IF item.k = "array" THEN Sum([i \in 1..Len(item.items) |-> Size(item.items[i])])
       ELSE 0)

RECURSIVE PropSize(_)
\* the properties in a value, itself included
PropSize(val) ==
  1 + (IF TypeOf(val) = "object" /\ val # Null
       THEN Sum([i \in 1..Len(ForInKeys(val)) |-> PropSize(Member(val, ForInKeys(val)[i]))])
       ELSE 0)

Weight(todo) ==
  Sum([i \in 1..Len(todo) |->
         CASE todo[i].k = "item" -> Size(todo[i].item)
           [] todo[i].k = "attribute" ->
                IF todo[i].key = "$" THEN PropSize(todo[i].val) ELSE 1
           [] todo[i].k = "property" -> PropSize(todo[i].val)
           [] OTHER -> 1])

Done == callee = "h" /\ frames = <<>>

whole == h(Start(pre), 0, arguments)

C30_Terminates ==
  /\ <>Done
  /\ [][callee = "h" => Weight(frames') < Weight(frames)]_vars
  /\ [](Done =>
         /\ heap = whole.heap
         /\ err = whole.err
         /\ log = whole.log
         /\ err = "none" => (ret = whole.ret /\ IsElement(heap, ret))
         /\ err # "none" => ret = Undefined
         /\ (\E i \in 1..Len(log) : log[i].op = "classify") =>
              Len(SelectSeq(log, LAMBDA e : e.op = "appendChild")) <= Len(Leaves(kids)))

C30_Witness ==
  /\ Done
  /\ arguments = <<Node(1),
                   Obj(<<Field("$", Obj(<<Field("style", Str("bold")),
                                          Field("hidden", Obj(<<Field("on", Num(1))>>)),
                                          Field("data", Obj(<<>>))>>))>>),
                   Arr(<<Str("u"), Arr(<<Undefined, Arr(<<Str("v"), Node(2)>>)>>)>>),
                   Str("hello")>>
  /\ err = "none"
  /\ ret = Node(1)
  /\ ArgsOf(SelectSeq(log, LAMBDA e : e.op = "appendChild")) =
       <<Str("u"), Str("v"), Node(2), Str("hello")>>
  /\ Get(heap[1].props, "hidden") = Obj(<<Field("on", Num(1))>>)
====
